---- MODULE Spec2Model ----
(***************************************************************************)
(* The campaign ad-serving engine of src/src/db/managers/campaign.ts:      *)
(* ClusterCampaignManager (create, delete, updateStatistics,               *)
(* incrementStatistic, incrementUsage, log, pick, ad, available,           *)
(* executeFilters, handleInteraction) and AppCampaignManager (campaigns,   *)
(* update), run by several concurrent requests.  Every `await` of the      *)
(* source that crosses to the app process or to the store is a step        *)
(* boundary.                                                                *)
(*                                                                         *)
(* The durable store with its cache (db.queue.update,                      *)
(* db.fetchFromCacheOrDatabase, db.createFromCacheOrDatabase, db.delete)   *)
(* is not part of the source files at hand; it is modelled from the        *)
(* interface the specification gives for CampaignStore.                    *)
(*                                                                         *)
(* Amounts: budget.cost is drawn from multiples of CostDivisor, so that    *)
(* cost / 1000 is the integer cost \div CostDivisor.                       *)
(***************************************************************************)
EXTENDS Integers, Sequences, FiniteSets, TLC

VARIABLES
    store,      \* durable store + cache: campaign id -> record, or Absent
    campaigns,  \* AppCampaignManager.campaigns, the in-memory list
    procs,      \* the concurrent requests: operation, position, locals
    initial,    \* the store as it was at start (never changes)
    requests,   \* how many requests arrive in this run (never changes)
    pk,         \* one call of pick on a given list: inputs and result
    metrics,    \* the events handed to db.metrics.changeCampaignsMetric
    fx          \* one call of executeFilters: inputs, result, filters run

vars == <<store, campaigns, procs, initial, requests, pk, metrics, fx>>

-----------------------------------------------------------------------------
(* Bounds and program constants *)

\* Requests in one run of serves and click-throughs alone (SpecServe)
NumProcs == 3

\* Requests in one run of all the operations (Spec)
MaxOps == 2

\* Campaigns in the list handed to one call of pick
MaxList == 3

\* Audit appends one operator makes one after another (SpecLog)
MaxLogs == 4

\* Filter calls in the list handed to one call of executeFilters
MaxCalls == 2

\* Campaigns in the list of one call of pick on positive totals (SpecShare)
MaxShare == 3

CostDivisor == 1000

MaxRandom == 100

Procs == 1..NumProcs

InitialIds == {"c1", "c2"}

\* randomUUID(): an id no other campaign has
NewIds == <<"n1", "n2", "n3", "n4", "n5", "n6">>

NewId(p) == NewIds[p]

AllIds == InitialIds \cup {NewId(p) : p \in Procs}

Countries == {"A", "B"}

NoCountry == "null"

\* The audit appends the operators make: action and acting user
LogCalls == {[action |-> "addBudget", who |-> "u1"],
             [action |-> "toggle", who |-> "u2"]}

\* The ids click-throughs arrive with: the initial campaigns, and one that
\* exists only once request 1 has created it
ClickIds == {"c1", NewId(1)}

-----------------------------------------------------------------------------
(* Data model *)

NoCampaign == [id |-> "none"]

Absent == [id |-> "none"]

EmptyGeo == [k \in {} |-> 0]

ZeroStats == [clicks |-> [total |-> 0, geo |-> EmptyGeo],
              views  |-> [total |-> 0, geo |-> EmptyGeo]]

NullFilters == [null |-> TRUE, calls |-> <<>>]

Filters(calls) == [null |-> FALSE, calls |-> calls]

Budget(total, used, type, cost) ==
    [total |-> total, used |-> used, type |-> type, cost |-> cost]

Campaign(id, active, budget, logs, filters, settings, stats) ==
    [id |-> id, active |-> active, budget |-> budget, logs |-> logs,
     filters |-> filters, settings |-> settings, stats |-> stats]

Viewer(country, hasGuild, hasTags, tags, language) ==
    [country |-> country, hasGuild |-> hasGuild, hasTags |-> hasTags,
     tags |-> tags, language |-> language]

LogEntry(action, who, when) ==
    [action |-> action, who |-> who, when |-> when, data |-> "null"]

-----------------------------------------------------------------------------
(* The registered filters *)

FilterNames == {"countries", "tags", "languages"}

\* A variant of the filters that lets a viewer without the attribute pass
FilterExecuteFailsOpen(name, data, v) ==
    CASE name = "countries" ->
           IF v.country = NoCountry THEN "true"
           ELSE IF v.country \in data THEN "true" ELSE "false"
      [] name = "tags" ->
           IF ~v.hasGuild \/ ~v.hasTags THEN "true"
           ELSE IF v.tags \cap data # {} THEN "true" ELSE "undefined"
      [] name = "languages" ->
           IF v.language \in data THEN "true" ELSE "false"

\* The result of filter.execute: "true", "false", or "undefined" when the
\* callback falls off its end without a return.
FilterExecute(name, data, v) ==
    CASE name = "countries" ->
           IF v.country = NoCountry THEN "false"
           ELSE IF v.country \in data THEN "true" ELSE "false"
      [] name = "tags" ->
           IF ~v.hasGuild \/ ~v.hasTags THEN "false"
           ELSE IF v.tags \cap data # {} THEN "true" ELSE "undefined"
      [] name = "languages" ->
           IF v.language \in data THEN "true" ELSE "false"

\* `!result` of executeFilters
Falsy(result) == result \in {"false", "undefined"}

\* The positions of the calls whose filter.execute is run, in order
RECURSIVE ExecutedCalls(_, _, _)
ExecutedCalls(calls, i, v) ==
    IF i > Len(calls) THEN <<>>
    ELSE IF calls[i].name \notin FilterNames THEN ExecutedCalls(calls, i + 1, v)
    ELSE IF Falsy(FilterExecute(calls[i].name, calls[i].data, v)) THEN <<i>>
    ELSE <<i>> \o ExecutedCalls(calls, i + 1, v)

RECURSIVE ExecuteCalls(_, _, _)
ExecuteCalls(calls, i, v) ==
    IF i > Len(calls) THEN TRUE
    ELSE IF calls[i].name \notin FilterNames THEN ExecuteCalls(calls, i + 1, v)
    ELSE IF Falsy(FilterExecute(calls[i].name, calls[i].data, v)) THEN FALSE
    ELSE ExecuteCalls(calls, i + 1, v)

\* A variant of executeFilters that turns a campaign without filters away
ExecuteFiltersNullFalse(c, v) ==
    IF c.filters.null \/ Len(c.filters.calls) = 0 THEN FALSE
    ELSE ExecuteCalls(c.filters.calls, 1, v)

\* A variant of executeFilters that looks at the first call alone
ExecuteFiltersFirstOnly(c, v) ==
    IF c.filters.null \/ Len(c.filters.calls) = 0 THEN TRUE
    ELSE ExecuteCalls(SubSeq(c.filters.calls, 1, 1), 1, v)

ExecuteFilters(c, v) ==
    IF c.filters.null \/ Len(c.filters.calls) = 0 THEN TRUE
    ELSE ExecuteCalls(c.filters.calls, 1, v)

-----------------------------------------------------------------------------
(* Budget *)

\* A variant of available that turns a campaign away at the boundary
AvailableStrict(c) == c.budget.total > c.budget.used

Available(c) == c.budget.total >= c.budget.used

\* A variant of the debit that adds the whole cost per thousand
UsageBudgetNoDivide(c) ==
    [c.budget EXCEPT !.used = c.budget.used + c.budget.cost]

\* The `budget` value incrementUsage hands to update
UsageBudget(c) ==
    [c.budget EXCEPT !.used = c.budget.used + (c.budget.cost \div CostDivisor)]

IncrementUsageChanges(c) == [budget |-> UsageBudget(c)]

-----------------------------------------------------------------------------
(* Statistics *)

\* { ...a, ...b } on geo maps
SpreadGeo(a, b) ==
    [k \in (DOMAIN a) \cup (DOMAIN b) |-> IF k \in DOMAIN b THEN b[k] ELSE a[k]]

\* The `updates` incrementStatistic builds from its campaign and the viewer
StatisticUpdates(c, type, v) ==
    [total |-> c.stats[type].total + 1,
     geo   |-> IF v.country = NoCountry THEN EmptyGeo
               ELSE [k \in {v.country} |->
                       IF k \in DOMAIN c.stats[type].geo /\ c.stats[type].geo[k] # 0
                       THEN c.stats[type].geo[k] + 1 ELSE 1]]

\* A variant of updateStatistics that stores updates.geo in place of the
\* spread of both geo maps
UpdateStatisticsNoSpread(c, type, updates) ==
    [stats |-> [c.stats EXCEPT ![type] =
                  [total |-> updates.total, geo |-> updates.geo]]]

UpdateStatistics(c, type, updates) ==
    [stats |-> [c.stats EXCEPT ![type] =
                  [total |-> updates.total,
                   geo   |-> SpreadGeo(c.stats[type].geo, updates.geo)]]]

IncrementStatisticChanges(c, type, v) ==
    UpdateStatistics(c, type, StatisticUpdates(c, type, v))

\* A variant of clearStatistics that resets the views alone
ClearStatisticsChangesViewsOnly(c) ==
    [stats |-> [c.stats EXCEPT !.views = ZeroStats.views]]

\* The changes clearStatistics hands to update
ClearStatisticsChanges(c) == [stats |-> ZeroStats]

-----------------------------------------------------------------------------
(* Audit log *)

\* A variant of log that puts the new entry first
LogChangesPrepend(c, entry) == [logs |-> <<entry>> \o c.logs]

LogChanges(c, entry) == [logs |-> Append(c.logs, entry)]

-----------------------------------------------------------------------------
(* pick *)

RECURSIVE SumTotals(_, _)
SumTotals(list, i) ==
    IF i > Len(list) THEN 0 ELSE list[i].budget.total + SumTotals(list, i + 1)

\* A variant of the eligibility filter that leaves out the budget check
EligibleNoBudgetCheck(list, v) ==
    SelectSeq(list, LAMBDA c : c.active /\ ExecuteFilters(c, v))

Eligible(list, v) ==
    SelectSeq(list, LAMBDA c : c.active /\ Available(c) /\ ExecuteFilters(c, v))

\* Math.round((total / totalBudget) * 100), for totalBudget > 0
RoundPercent(total, totalBudget) ==
    (200 * total + totalBudget) \div (2 * totalBudget)

\* The two `if`s of the loop body, one after the other
Clamp(percent) ==
    LET p1 == IF percent > 20 THEN 20 - (percent - 20) ELSE percent
    IN  IF p1 < 5 THEN 5 + (10 - p1) ELSE p1

RECURSIVE PickWalk(_, _, _, _, _, _)
PickWalk(sorted, i, totalBudget, random, start, end) ==
    IF i > Len(sorted) THEN NoCampaign
    ELSE LET raw     == RoundPercent(sorted[i].budget.total, totalBudget)
             end2    == end + raw
             percent == Clamp(raw)
         IN  IF random > start /\ random <= end2 THEN sorted[i]
             ELSE PickWalk(sorted, i + 1, totalBudget, random, start + percent, end2)

\* start and end as the loop leaves them after each candidate that does not
\* win (after `start += percent`), in the order of the walk
RECURSIVE WalkBounds(_, _, _, _, _, _)
WalkBounds(sorted, i, totalBudget, random, start, end) ==
    IF i > Len(sorted) THEN <<>>
    ELSE LET raw     == RoundPercent(sorted[i].budget.total, totalBudget)
             end2    == end + raw
             percent == Clamp(raw)
         IN  IF random > start /\ random <= end2 THEN <<>>
             ELSE <<[start |-> start + percent, end |-> end2]>>
                    \o WalkBounds(sorted, i + 1, totalBudget, random,
                                  start + percent, end2)

PickBounds(list, v, random) ==
    LET sorted      == Eligible(list, v)
        totalBudget == SumTotals(sorted, 1)
    IN  IF totalBudget = 0 THEN <<>>
        ELSE WalkBounds(sorted, 1, totalBudget, random, 0, 0)

\* A variant of pick that hands a zero total budget to the first eligible
\* campaign
PickZeroTotalFirst(list, v, random) ==
    LET sorted      == Eligible(list, v)
        totalBudget == SumTotals(sorted, 1)
    IN  IF totalBudget = 0
        THEN (IF Len(sorted) = 0 THEN NoCampaign ELSE sorted[1])
        ELSE PickWalk(sorted, 1, totalBudget, random, 0, 0)

\* totalBudget = 0 makes every percent NaN, every comparison with end false,
\* and the walk ends without a winner.
Pick(list, v, random) ==
    LET sorted      == Eligible(list, v)
        totalBudget == SumTotals(sorted, 1)
    IN  IF totalBudget = 0 THEN NoCampaign
        ELSE PickWalk(sorted, 1, totalBudget, random, 0, 0)

-----------------------------------------------------------------------------
(* The store (CampaignStore) and the in-memory list *)

Present(id) == store[id] # Absent

\* update(id, partialChanges): merge of the changed top-level fields
Merge(record, changes) ==
    [f \in DOMAIN record |-> IF f \in DOMAIN changes THEN changes[f] ELSE record[f]]

\* Array.findIndex(c => c.id === id): 0-based, -1 when there is none
RECURSIVE FindIndexFrom(_, _, _)
FindIndexFrom(list, id, i) ==
    IF i > Len(list) THEN -1
    ELSE IF list[i].id = id THEN i - 1
    ELSE FindIndexFrom(list, id, i + 1)

FindIndex(list, id) == FindIndexFrom(list, id, 1)

\* this.campaigns[index] = updated: index -1 sets a property, no element
ListAssign(list, index, updated) ==
    IF index < 0 THEN list ELSE [list EXCEPT ![index + 1] = updated]

\* Array.splice(index, 1): a negative index counts from the end
Splice(list, index) ==
    LET len   == Len(list)
        from  == IF index < 0 THEN (IF len + index < 0 THEN 0 ELSE len + index)
                 ELSE (IF index > len THEN len ELSE index)
    IN  [i \in 1..(IF from < len THEN len - 1 ELSE len) |->
            IF i <= from THEN list[i] ELSE list[i + 1]]

-----------------------------------------------------------------------------
(* Requests *)

\* The `changes` of a request that is not an operator's update
NoChanges == [none |-> "none"]

IdleProc ==
    [op |-> "idle", pc |-> "idle", stage |-> "none",
     campaign |-> NoCampaign, updated |-> NoCampaign,
     viewer |-> Viewer(NoCountry, FALSE, FALSE, {}, "en"),
     entry |-> LogEntry("none", "none", 0), calls |-> <<>>,
     changes |-> NoChanges, listAtCall |-> <<>>,
     counted |-> FALSE, debited |-> FALSE, sinkFailed |-> FALSE,
     result |-> "none"]

\* A call a request has made on the manager: the method, its type or
\* action argument, and the acting user of a log call
Call(name, arg, who) == [name |-> name, arg |-> arg, who |-> who]

\* Requests are started in order of their number (they are interchangeable)
Clock == Cardinality({p \in Procs : procs[p].pc # "idle"})

CanStart(p) ==
    /\ procs[p].pc = "idle"
    /\ \A q \in Procs : q < p => procs[q].pc # "idle"
    /\ Clock < requests

Quiescent == \A p \in Procs : procs[p].pc \in {"idle", "done"}

\* A request that has returned: what is kept is which operation it was, for
\* which viewer, the calls it made, what it wrote, the campaign it returns
\* and how it ended.
Finished(proc, result) ==
    [IdleProc EXCEPT !.op = proc.op, !.pc = "done", !.stage = proc.stage,
                     !.campaign = proc.campaign, !.viewer = proc.viewer,
                     !.calls = proc.calls,
                     !.counted = proc.counted, !.debited = proc.debited,
                     !.sinkFailed = proc.sinkFailed,
                     !.result = result]

SpecViewers == {Viewer(k, FALSE, FALSE, {}, "en") : k \in Countries}

\* AppCampaignManager.update, first half: db.queue.update writes the store.
\* An id the store does not hold is NotFound: nothing is written.
QueueUpdate(p, c, changes, stage) ==
    IF Present(c.id)
    THEN /\ store' = [store EXCEPT ![c.id] = Merge(store[c.id], changes)]
         /\ procs' = [procs EXCEPT ![p] =
                [@ EXCEPT !.pc = "list", !.stage = stage,
                          !.updated = Merge(store[c.id], changes),
                          !.counted = @ \/ stage = "stat",
                          !.debited = @ \/ stage = "usage"]]
    ELSE /\ store' = store
         /\ procs' = [procs EXCEPT ![p] = Finished(@, "error")]

\* What pick may return on a list: one of its campaigns, or none
Candidates(list) == {list[i] : i \in 1..Len(list)} \cup {NoCampaign}

\* A variant of ad that reports a view to the metrics sink before it looks
\* at what pick returned
AdPickEmitsFirst(p, v, c) ==
    /\ CanStart(p)
    /\ \E random \in 1..MaxRandom : Pick(campaigns, v, random) = c
    /\ procs' = [procs EXCEPT ![p] =
           IF c = NoCampaign
           THEN Finished([@ EXCEPT !.op = "ad", !.viewer = v], "null")
           ELSE [@ EXCEPT !.op = "ad", !.pc = "incrementStatistic",
                          !.viewer = v, !.campaign = c,
                          !.calls = <<Call("incrementStatistic", "views", "none")>>]]
    /\ metrics' = Append(metrics, [type |-> "views", name |-> c.id,
                                   total |-> 0, now |-> "+1"])
    /\ UNCHANGED <<store, campaigns, initial, requests, pk, fx>>

\* ad: pick over the list all() returns; c is what pick returns for some draw
\* of Math.floor(Math.random() * 100) + 1
AdPick(p, v, c) ==
    /\ CanStart(p)
    /\ \E random \in 1..MaxRandom : Pick(campaigns, v, random) = c
    /\ procs' = [procs EXCEPT ![p] =
           IF c = NoCampaign
           THEN Finished([@ EXCEPT !.op = "ad", !.viewer = v], "null")
           ELSE [@ EXCEPT !.op = "ad", !.pc = "incrementStatistic",
                          !.viewer = v, !.campaign = c,
                          !.calls = <<Call("incrementStatistic", "views", "none")>>]]
    /\ UNCHANGED <<store, campaigns, initial, requests, pk, metrics, fx>>

\* The event incrementStatistic hands to db.metrics.changeCampaignsMetric:
\* { [type]: { total: { [name]: updates.total }, now: { [name]: "+1" } } }
MetricsEvent(c, type, v) ==
    [type |-> type, name |-> c.id, total |-> StatisticUpdates(c, type, v).total,
     now |-> "+1"]

\* ad: incrementStatistic(campaign, "views", db), up to the store write.  The
\* event goes to the metrics sink first; no request reads the sink, so the
\* emission and the store write that follows it are one step.
AdIncrementStatistic(p) ==
    /\ procs[p].pc = "incrementStatistic"
    /\ metrics' = Append(metrics,
                         MetricsEvent(procs[p].campaign, "views", procs[p].viewer))
    /\ QueueUpdate(p, procs[p].campaign,
                   IncrementStatisticChanges(procs[p].campaign, "views", procs[p].viewer),
                   "stat")
    /\ UNCHANGED <<campaigns, initial, requests, pk, fx>>

\* A variant of the click-through that answers an unknown id like a known one
ClickGetAnswersUnknown(p, id) ==
    /\ CanStart(p)
    /\ procs' = [procs EXCEPT ![p] =
           IF Present(id)
           THEN [@ EXCEPT !.op = "click", !.pc = "incrementUsage",
                          !.campaign = store[id],
                          !.calls = <<Call("incrementUsage", "click", "none")>>]
           ELSE Finished([@ EXCEPT !.op = "click"], "ok")]
    /\ UNCHANGED <<store, campaigns, initial, requests, pk, metrics, fx>>

\* ad: the changeCampaignsMetric call incrementStatistic awaits is rejected
\* (the metrics sink failed).  Neither incrementStatistic nor ad has a catch:
\* updateStatistics and incrementUsage are not reached, the rejection is the
\* result of ad.
AdMetricsFail(p) ==
    /\ procs[p].pc = "incrementStatistic"
    /\ procs' = [procs EXCEPT ![p] =
           Finished([@ EXCEPT !.sinkFailed = TRUE], "error")]
    /\ UNCHANGED <<store, campaigns, initial, requests, pk, metrics, fx>>

\* handleInteraction, action "link": get(raw[1])
ClickGet(p, id) ==
    /\ CanStart(p)
    /\ procs' = [procs EXCEPT ![p] =
           IF Present(id)
           THEN [@ EXCEPT !.op = "click", !.pc = "incrementUsage",
                          !.campaign = store[id],
                          !.calls = <<Call("incrementUsage", "click", "none")>>]
           ELSE Finished([@ EXCEPT !.op = "click"], "null")]
    /\ UNCHANGED <<store, campaigns, initial, requests, pk, metrics, fx>>

UsageType(op) == IF op = "ad" THEN "view" ELSE "click"

\* incrementUsage(campaign, type), up to the store write
IncrementUsage(p) ==
    /\ procs[p].pc = "incrementUsage"
    /\ IF procs[p].campaign.budget.type # UsageType(procs[p].op)
       THEN /\ procs' = [procs EXCEPT ![p] = Finished(@, "ok")]
            /\ store' = store
       ELSE QueueUpdate(p, procs[p].campaign,
                        IncrementUsageChanges(procs[p].campaign), "usage")
    /\ UNCHANGED <<campaigns, initial, requests, pk, metrics, fx>>

\* log({ campaign, action, user }): the entry is built at the call
LogCall(p, id, action, who) ==
    /\ CanStart(p)
    /\ Present(id)
    /\ procs' = [procs EXCEPT ![p] =
           [@ EXCEPT !.op = "log", !.pc = "log", !.campaign = store[id],
                     !.entry = LogEntry(action, who, Clock + 1),
                     !.calls = <<Call("log", action, who)>>]]
    /\ UNCHANGED <<store, campaigns, initial, requests, pk, metrics, fx>>

Log(p) ==
    /\ procs[p].pc = "log"
    /\ QueueUpdate(p, procs[p].campaign,
                   LogChanges(procs[p].campaign, procs[p].entry), "log")
    /\ UNCHANGED <<campaigns, initial, requests, pk, metrics, fx>>

\* log again, with the campaign the caller's previous log returned
LogAgain(p, action, who) ==
    /\ procs[p].op = "log"
    /\ procs[p].pc = "done"
    /\ procs[p].result = "ok"
    /\ Len(procs[p].calls) < MaxLogs
    /\ procs' = [procs EXCEPT ![p] =
           [@ EXCEPT !.pc = "log", !.stage = "none", !.result = "none",
                     !.entry = LogEntry(action, who, Clock + Len(procs[p].calls)),
                     !.calls = Append(@, Call("log", action, who))]]
    /\ UNCHANGED <<store, campaigns, initial, requests, pk, metrics, fx>>

\* A variant of log that catches the rejected update and returns normally
LogFailSwallowed(p) ==
    /\ procs[p].pc = "log"
    /\ procs' = [procs EXCEPT ![p] = Finished(@, "ok")]
    /\ UNCHANGED <<store, campaigns, initial, requests, pk, metrics, fx>>

\* log: the update it awaits is rejected (the store write failed); there is
\* no catch, the rejection is the result of log
LogFail(p) ==
    /\ procs[p].pc = "log"
    /\ procs' = [procs EXCEPT ![p] = Finished(@, "error")]
    /\ UNCHANGED <<store, campaigns, initial, requests, pk, metrics, fx>>

\* clearStatistics(campaign): the caller holds a campaign of the store
ClearStatisticsCall(p, id) ==
    /\ CanStart(p)
    /\ Present(id)
    /\ procs' = [procs EXCEPT ![p] =
           [@ EXCEPT !.op = "clearStatistics", !.pc = "clearStatistics",
                     !.campaign = store[id],
                     !.calls = <<Call("clearStatistics", "none", "none")>>]]
    /\ UNCHANGED <<store, campaigns, initial, requests, pk, metrics, fx>>

ClearStatistics(p) ==
    /\ procs[p].pc = "clearStatistics"
    /\ QueueUpdate(p, procs[p].campaign,
                   ClearStatisticsChanges(procs[p].campaign), "clear")
    /\ UNCHANGED <<campaigns, initial, requests, pk, metrics, fx>>

\* The budget edits an operator makes: the total raised by RaiseBy, a
\* negative total, a negative cost
RaiseBy == 2

BudgetEdits == {"raiseTotal", "negativeTotal", "negativeCost"}

\* The changes the operator hands to update, built on the campaign they hold
BudgetChanges(c, edit) ==
    [budget |->
        CASE edit = "raiseTotal"    -> [c.budget EXCEPT !.total = @ + RaiseBy]
          [] edit = "negativeTotal" -> [c.budget EXCEPT !.total = -1]
          [] edit = "negativeCost"  -> [c.budget EXCEPT !.cost = -CostDivisor]]

\* update(campaign, changes) by an operator who holds a campaign of the store
OperatorUpdateCall(p, id, edit) ==
    /\ CanStart(p)
    /\ Present(id)
    /\ procs' = [procs EXCEPT ![p] =
           [@ EXCEPT !.op = "update", !.pc = "update", !.campaign = store[id],
                     !.changes = BudgetChanges(store[id], edit),
                     !.calls = <<Call("update", edit, "none")>>]]
    /\ UNCHANGED <<store, campaigns, initial, requests, pk, metrics, fx>>

\* update: app.db.campaign.update(campaign, changes), up to the store write
OperatorUpdate(p) ==
    /\ procs[p].pc = "update"
    /\ QueueUpdate(p, procs[p].campaign, procs[p].changes, "update")
    /\ UNCHANGED <<campaigns, initial, requests, pk, metrics, fx>>

\* A variant of ad that returns right after the statistics increment
AfterUpdateNoDebit(proc) ==
    Finished([proc EXCEPT !.campaign = proc.updated], "ok")

\* What the caller of update does with the campaign update returns: ad goes
\* on from incrementStatistic to incrementUsage(campaign, "view"); every
\* other caller returns it
AfterUpdate(proc) ==
    IF proc.stage = "stat"
    THEN [proc EXCEPT !.pc = "incrementUsage", !.campaign = proc.updated,
                      !.calls = Append(@, Call("incrementUsage", "view", "none"))]
    ELSE Finished([proc EXCEPT !.campaign = proc.updated], "ok")

\* AppCampaignManager.update, second half: the list entry is replaced and the
\* updated campaign goes back to the caller
AppUpdate(p) ==
    /\ procs[p].pc = "list"
    /\ campaigns' = ListAssign(campaigns,
                               FindIndex(campaigns, procs[p].campaign.id),
                               procs[p].updated)
    /\ procs' = [procs EXCEPT ![p] = AfterUpdate(@)]
    /\ UNCHANGED <<store, initial, requests, pk, metrics, fx>>

Drafts ==
    {[budget |-> Budget(2, 0, "view", CostDivisor), logs |-> <<>>, settings |-> "s1"],
     [budget |-> Budget(2, 0, "click", CostDivisor),
      logs |-> <<LogEntry("toggle", "u1", 0)>>, settings |-> "s1"]}

\* A variant of create that lets the campaign start active
CreateDataActive(id, options) ==
    Campaign(id, TRUE, options.budget, options.logs, NullFilters,
             options.settings, ZeroStats)

\* create(options): the record built from the draft
CreateData(id, options) ==
    Campaign(id, FALSE, options.budget, options.logs, NullFilters,
             options.settings, ZeroStats)

\* create: db.createFromCacheOrDatabase
Create(p, options) ==
    /\ CanStart(p)
    /\ store' = [store EXCEPT ![NewId(p)] = CreateData(NewId(p), options)]
    /\ procs' = [procs EXCEPT ![p] =
           [@ EXCEPT !.op = "create", !.pc = "push",
                     !.campaign = CreateData(NewId(p), options)]]
    /\ UNCHANGED <<campaigns, initial, requests, pk, metrics, fx>>

\* create: app.db.campaign.campaigns.push(campaign)
CreatePush(p) ==
    /\ procs[p].pc = "push"
    /\ campaigns' = Append(campaigns, procs[p].campaign)
    /\ procs' = [procs EXCEPT ![p] = Finished(@, "ok")]
    /\ UNCHANGED <<store, initial, requests, pk, metrics, fx>>

\* The campaigns a caller of delete may hold: those of the list all()
\* returns, and those an earlier delete was given
Deletable ==
    {campaigns[i].id : i \in 1..Len(campaigns)}
      \cup {procs[q].campaign.id : q \in {r \in Procs : procs[r].op = "delete"}}

\* delete(campaign): findIndex and splice on the list
Delete(p, id) ==
    /\ CanStart(p)
    /\ id \in Deletable
    /\ campaigns' = Splice(campaigns, FindIndex(campaigns, id))
    /\ procs' = [procs EXCEPT ![p] =
           [@ EXCEPT !.op = "delete", !.pc = "deleteStore",
                     !.campaign = [id |-> id]]]
    /\ UNCHANGED <<store, initial, requests, pk, metrics, fx>>

\* delete: db.delete("campaigns", campaign)
DeleteStore(p) ==
    /\ procs[p].pc = "deleteStore"
    /\ store' = [store EXCEPT ![procs[p].campaign.id] = Absent]
    /\ procs' = [procs EXCEPT ![p] = Finished(@, "ok")]
    /\ UNCHANGED <<campaigns, initial, requests, pk, metrics, fx>>

\* delete: db.delete is rejected (the store delete failed); there is no
\* catch, the rejection is the result of delete, and the store keeps the
\* record
DeleteStoreFail(p) ==
    /\ procs[p].pc = "deleteStore"
    /\ procs' = [procs EXCEPT ![p] = Finished(@, "error")]
    /\ UNCHANGED <<store, campaigns, initial, requests, pk, metrics, fx>>

\* The rows a select("*") of the campaigns collection may return: the
\* stored records, each once, in some order
SelectRows ==
    LET ids == {id \in AllIds : Present(id)}
    IN  {[i \in 1..Cardinality(ids) |-> store[order[i]]] :
            order \in {f \in [1..Cardinality(ids) -> ids] :
                          \A i, j \in 1..Cardinality(ids) :
                              f[i] = f[j] => i = j}}

\* load(), up to the select it awaits: a list that is not empty is
\* replaced by an empty one. listAtCall is the list as load found it.
LoadCall(p) ==
    /\ CanStart(p)
    /\ campaigns' = IF Len(campaigns) > 0 THEN <<>> ELSE campaigns
    /\ procs' = [procs EXCEPT ![p] =
           [@ EXCEPT !.op = "load", !.pc = "select",
                     !.listAtCall = campaigns]]
    /\ UNCHANGED <<store, initial, requests, pk, metrics, fx>>

\* load(): the select answers with data; no rows return [] and leave the
\* list as it is, otherwise the rows become the list
LoadSelect(p, data) ==
    /\ procs[p].pc = "select"
    /\ data \in SelectRows
    /\ campaigns' = IF Len(data) = 0 THEN campaigns ELSE data
    /\ procs' = [procs EXCEPT ![p] = Finished(@, "ok")]
    /\ UNCHANGED <<store, initial, requests, pk, metrics, fx>>

\* load(): the select answers with an error, load throws GPTDatabaseError
LoadFail(p) ==
    /\ procs[p].pc = "select"
    /\ procs' = [procs EXCEPT ![p] = Finished(@, "error")]
    /\ UNCHANGED <<store, campaigns, initial, requests, pk, metrics, fx>>

-----------------------------------------------------------------------------
(* Specification of the concurrent engine *)

NoFx == [called |-> FALSE, filters |-> NullFilters,
         viewer |-> Viewer(NoCountry, FALSE, FALSE, {}, "en"),
         result |-> FALSE, executed |-> <<>>]

NoPick == [called |-> FALSE, viewer |-> Viewer(NoCountry, FALSE, FALSE, {}, "en"),
           random |-> 0, result |-> NoCampaign, bounds |-> <<>>]

InitialCampaign(id, type, used) ==
    Campaign(id, TRUE, Budget(1, used, type, CostDivisor), <<>>, NullFilters,
             "s0", ZeroStats)

Start ==
    /\ \E t1 \in {"view", "click"}, u1 \in {0}, t2 \in {"view"} :
          initial = [id \in AllIds |->
                        IF id = "c1" THEN InitialCampaign("c1", t1, u1)
                        ELSE IF id = "c2" THEN InitialCampaign("c2", t2, 0)
                        ELSE Absent]
    /\ store = initial
    /\ campaigns = <<initial["c1"], initial["c2"]>>
    /\ procs = [p \in Procs |-> IdleProc]
    /\ pk = NoPick
    /\ metrics = <<>>
    /\ fx = NoFx

Init == Start /\ requests = MaxOps

\* A serve or a click-through arrives
ServeStart(p) ==
    \/ \E v \in SpecViewers :
          \E c \in Candidates(campaigns) : AdPick(p, v, c)
    \/ \E id \in ClickIds : ClickGet(p, id)

\* A serve or a click-through goes on
ServeStep(p) ==
    \/ AdIncrementStatistic(p)
    \/ IncrementUsage(p)
    \/ AppUpdate(p)

\* An operator's request arrives
OperatorStart(p) ==
    \/ \E id \in {"c1"}, call \in LogCalls :
          LogCall(p, id, call.action, call.who)
    \/ \E options \in Drafts : Create(p, options)
    \/ \E id \in AllIds : Delete(p, id)

\* An operator's request goes on
OperatorStep(p) ==
    \/ Log(p)
    \/ CreatePush(p)
    \/ DeleteStore(p)

Next ==
    \E p \in Procs :
        \/ ServeStart(p)
        \/ ServeStep(p)
        \/ OperatorStart(p)
        \/ OperatorStep(p)

Spec == Init /\ [][Next]_vars

\* Serves and click-throughs alone
NextServe == \E p \in Procs : ServeStart(p) \/ ServeStep(p)

InitServe == Start /\ requests = NumProcs

SpecServe == InitServe /\ [][NextServe]_vars

-----------------------------------------------------------------------------
(* Specification of the statistics: serves and resets of a campaign whose  *)
(* counters are not all zero and whose budget is used up by one more view, *)
(* for viewers with and without a country, alone in the list or next to a  *)
(* campaign with a much larger budget                                      *)

StatViewers == {Viewer(k, FALSE, FALSE, {}, "en") : k \in {"A", NoCountry}}

\* The statistics the campaign starts with
StartStats ==
    {ZeroStats,
     [clicks |-> [total |-> 1, geo |-> [k \in {"B"} |-> 1]],
      views  |-> [total |-> 2, geo |-> [k \in {"A", "B"} |-> 1]]]}

\* The budget total of the large campaign: next to a total of 1 the shares
\* round to 2 and 98 percent
LargeTotal == 49

InitStats ==
    /\ \E st \in StartStats, large \in BOOLEAN :
          /\ initial = [id \in AllIds |->
                IF id = "c1"
                THEN [InitialCampaign("c1", "view", 1) EXCEPT !.stats = st]
                ELSE IF id = "c2" /\ large
                THEN [InitialCampaign("c2", "view", 0)
                         EXCEPT !.budget.total = LargeTotal]
                ELSE Absent]
          /\ campaigns = IF large THEN <<initial["c1"], initial["c2"]>>
                                  ELSE <<initial["c1"]>>
    /\ store = initial
    /\ procs = [p \in Procs |-> IdleProc]
    /\ requests = MaxOps
    /\ pk = NoPick
    /\ metrics = <<>>
    /\ fx = NoFx

\* A serve or a reset arrives
StatStart(p) ==
    \/ \E v \in StatViewers :
          \E c \in Candidates(campaigns) : AdPick(p, v, c)
    \/ ClearStatisticsCall(p, "c1")

\* A serve or a reset goes on
StatStep(p) ==
    \/ AdIncrementStatistic(p)
    \/ IncrementUsage(p)
    \/ ClearStatistics(p)
    \/ AppUpdate(p)

NextStats == \E p \in Procs : StatStart(p) \/ StatStep(p)

SpecStats == InitStats /\ [][NextStats]_vars

-----------------------------------------------------------------------------
(* Specification of the serves with a metrics sink that may fail           *)

\* A serve or a click-through goes on, or the sink fails under a serve
FailStep(p) ==
    \/ ServeStep(p)
    \/ AdMetricsFail(p)

NextFail == \E p \in Procs : ServeStart(p) \/ FailStep(p)

SpecFail == Init /\ [][NextFail]_vars

-----------------------------------------------------------------------------
(* Specification of the budget edits: serves and click-throughs next to an *)
(* operator who raises a budget total, or who creates or updates a         *)
(* campaign with a negative total or cost                                  *)

BudgetDrafts ==
    Drafts \cup
    {[budget |-> Budget(-1, 0, "view", CostDivisor), logs |-> <<>>,
      settings |-> "s1"],
     [budget |-> Budget(2, 0, "view", -CostDivisor), logs |-> <<>>,
      settings |-> "s1"]}

\* A serve, a click-through, an update or a create arrives
BudgetStart(p) ==
    \/ ServeStart(p)
    \/ \E edit \in BudgetEdits : OperatorUpdateCall(p, "c1", edit)
    \/ \E options \in BudgetDrafts : Create(p, options)

\* The request goes on
BudgetStep(p) ==
    \/ ServeStep(p)
    \/ OperatorUpdate(p)
    \/ CreatePush(p)

NextBudget == \E p \in Procs : BudgetStart(p) \/ BudgetStep(p)

SpecBudget == Init /\ [][NextBudget]_vars

-----------------------------------------------------------------------------
(* Specification of the audit log: one operator appends entries to c1 one  *)
(* after another, each time with the campaign the previous log returned;   *)
(* any of the store writes may fail                                        *)

InitLog == Start /\ requests = 1

\* The operator calls log
LogStart(p) ==
    \E call \in LogCalls :
        \/ LogCall(p, "c1", call.action, call.who)
        \/ LogAgain(p, call.action, call.who)

\* The call goes on
LogStep(p) ==
    \/ Log(p)
    \/ LogFail(p)
    \/ AppUpdate(p)

NextLog == \E p \in Procs : LogStart(p) \/ LogStep(p)

SpecLog == InitLog /\ [][NextLog]_vars

-----------------------------------------------------------------------------
(* Specification of the deletes: serves and click-throughs next to an      *)
(* operator who deletes campaigns; any of the store deletes may fail       *)

\* A serve, a click-through or a delete arrives
DeleteStart(p) ==
    \/ ServeStart(p)
    \/ \E id \in AllIds : Delete(p, id)

\* The request goes on
DeleteStep(p) ==
    \/ ServeStep(p)
    \/ DeleteStore(p)
    \/ DeleteStoreFail(p)

NextDelete == \E p \in Procs : DeleteStart(p) \/ DeleteStep(p)

SpecDelete == Init /\ [][NextDelete]_vars

-----------------------------------------------------------------------------
(* Specification of the loads: the manager starts with the empty list of   *)
(* its constructor; the list is loaded and reloaded from the store next to *)
(* serves and click-throughs; any of the selects may fail                  *)

InitLoad ==
    /\ \E t1 \in {"view", "click"} :
          initial = [id \in AllIds |->
                        IF id = "c1" THEN InitialCampaign("c1", t1, 0)
                        ELSE IF id = "c2" THEN InitialCampaign("c2", "view", 0)
                        ELSE Absent]
    /\ store = initial
    /\ campaigns = <<>>
    /\ procs = [p \in Procs |-> IdleProc]
    /\ requests = MaxOps
    /\ pk = NoPick
    /\ metrics = <<>>
    /\ fx = NoFx

\* A serve, a click-through or a load arrives
LoadStart(p) ==
    \/ ServeStart(p)
    \/ LoadCall(p)

\* The request goes on
LoadStep(p) ==
    \/ ServeStep(p)
    \/ \E data \in SelectRows : LoadSelect(p, data)
    \/ LoadFail(p)

NextLoad == \E p \in Procs : LoadStart(p) \/ LoadStep(p)

SpecLoad == InitLoad /\ [][NextLoad]_vars

-----------------------------------------------------------------------------
(* Specification of executeFilters as a function: one call on a given      *)
(* filter list, for a given viewer                                         *)

\* The filter calls the lists are made of: one per registered filter, and
\* one whose name is not registered
FilterCalls ==
    {[name |-> "countries", data |-> {"A"}],
     [name |-> "tags", data |-> {"t1"}],
     [name |-> "languages", data |-> {"en"}],
     [name |-> "unregistered", data |-> {"x"}]}

FilterLists ==
    {NullFilters} \cup
    {Filters(calls) : calls \in UNION {[1..n -> FilterCalls] : n \in 0..MaxCalls}}

\* Viewers with and without a country, without a guild, in a guild without
\* tags, in a guild with a listed or an unlisted tag
FilterViewers ==
    {Viewer(k, g.hasGuild, g.hasTags, g.tags, l) :
        k \in Countries \cup {NoCountry},
        g \in {[hasGuild |-> FALSE, hasTags |-> FALSE, tags |-> {}],
               [hasGuild |-> TRUE,  hasTags |-> FALSE, tags |-> {}],
               [hasGuild |-> TRUE,  hasTags |-> TRUE,  tags |-> {"t1"}],
               [hasGuild |-> TRUE,  hasTags |-> TRUE,  tags |-> {"t2"}]},
        l \in {"en", "fr"}}

InitFilters ==
    /\ store = [id \in AllIds |-> Absent]
    /\ initial = store
    /\ campaigns = <<>>
    /\ procs = [p \in Procs |-> IdleProc]
    /\ requests = 0
    /\ pk = NoPick
    /\ metrics = <<>>
    /\ \E f \in FilterLists, v \in FilterViewers :
          fx = [NoFx EXCEPT !.filters = f, !.viewer = v]

ExecuteFiltersCall ==
    /\ ~fx.called
    /\ fx' = [fx EXCEPT
                !.called = TRUE,
                !.result = ExecuteFilters([filters |-> fx.filters], fx.viewer),
                !.executed = IF fx.filters.null THEN <<>>
                             ELSE ExecutedCalls(fx.filters.calls, 1, fx.viewer)]
    /\ UNCHANGED <<store, campaigns, procs, initial, requests, pk, metrics>>

NextFilters == ExecuteFiltersCall

SpecFilters == InitFilters /\ [][NextFilters]_vars

-----------------------------------------------------------------------------
(* Specification of pick as a function: one call on a given list, for a    *)
(* given viewer, with a given draw                                          *)

PositionIds == <<"c1", "c2", "c3", "c4", "c5", "c6">>

\* The campaigns the lists are made of: active or not, within, at or over
\* budget, with a zero total, and with no, an empty, a countries and a
\* tags filter list
Catalogue ==
    {[active |-> TRUE,  total |-> 10, used |-> 0,  filters |-> NullFilters],
     [active |-> TRUE,  total |-> 80, used |-> 0,  filters |-> NullFilters],
     [active |-> FALSE, total |-> 10, used |-> 0,  filters |-> NullFilters],
     [active |-> TRUE,  total |-> 10, used |-> 11, filters |-> NullFilters],
     [active |-> TRUE,  total |-> 10, used |-> 10, filters |-> Filters(<<>>)],
     [active |-> TRUE,  total |-> 0,  used |-> 0,  filters |-> NullFilters],
     [active |-> TRUE,  total |-> 10, used |-> 0,
      filters |-> Filters(<<[name |-> "countries", data |-> {"A"}]>>)],
     [active |-> TRUE,  total |-> 10, used |-> 0,
      filters |-> Filters(<<[name |-> "tags", data |-> {"t1"}]>>)]}

PickViewers ==
    {Viewer("A", TRUE, TRUE, {"t1"}, "en"),
     Viewer("B", TRUE, TRUE, {"t2"}, "en"),
     Viewer("A", TRUE, FALSE, {}, "fr")}

PickLists ==
    {[i \in 1..Len(cfg) |->
         Campaign(PositionIds[i], cfg[i].active,
                  Budget(cfg[i].total, cfg[i].used, "view", CostDivisor),
                  <<>>, cfg[i].filters, "s0", ZeroStats)] :
       cfg \in UNION {[1..n -> Catalogue] : n \in 0..MaxList}}

StoreOf(list) ==
    [id \in {list[i].id : i \in 1..Len(list)} |->
        list[CHOOSE i \in 1..Len(list) : list[i].id = id]]

InitPick ==
    /\ campaigns \in PickLists
    /\ store = StoreOf(campaigns)
    /\ initial = store
    /\ procs = [p \in Procs |-> IdleProc]
    /\ requests = 0
    /\ metrics = <<>>
    /\ fx = NoFx
    /\ \E v \in PickViewers : pk = [NoPick EXCEPT !.viewer = v]

PickCall(random) ==
    /\ ~pk.called
    /\ pk' = [pk EXCEPT !.called = TRUE, !.random = random,
                        !.result = Pick(campaigns, pk.viewer, random),
                        !.bounds = PickBounds(campaigns, pk.viewer, random)]
    /\ UNCHANGED <<store, campaigns, procs, initial, requests, metrics, fx>>

NextPick == \E random \in 1..MaxRandom : PickCall(random)

SpecPick == InitPick /\ [][NextPick]_vars

-----------------------------------------------------------------------------
(* Specification of the shares: one call of pick on a list of active       *)
(* campaigns without filters, within budget, with small and large positive *)
(* totals                                                                  *)

ShareTotals == {1, 10, 98}

ShareLists ==
    {[i \in 1..Len(totals) |->
         Campaign(PositionIds[i], TRUE,
                  Budget(totals[i], 0, "view", CostDivisor),
                  <<>>, NullFilters, "s0", ZeroStats)] :
       totals \in UNION {[1..n -> ShareTotals] : n \in 1..MaxShare}}

InitShare ==
    /\ campaigns \in ShareLists
    /\ store = StoreOf(campaigns)
    /\ initial = store
    /\ procs = [p \in Procs |-> IdleProc]
    /\ requests = 0
    /\ metrics = <<>>
    /\ fx = NoFx
    /\ pk = NoPick

SpecShare == InitShare /\ [][NextPick]_vars

-----------------------------------------------------------------------------
(* Properties *)

\* Only serve (ad) and click-through requests have been started
ServeOnly == \A p \in Procs : procs[p].op \in {"idle", "ad", "click"}

\* The requests whose matching-type debit of campaign id has been written
Debited(id) == {p \in Procs : procs[p].debited /\ procs[p].campaign.id = id}

\* The requests whose view increment of campaign id has been written
Counted(id) == {p \in Procs : procs[p].counted /\ procs[p].campaign.id = id}

DebitCost(c) == c.budget.cost \div CostDivisor

IsPrefix(s, t) == Len(s) <= Len(t) /\ \A i \in 1..Len(s) : s[i] = t[i]

\* C1: once two matching-type debits of the same campaign, made by serve or
\* click-through requests in any interleaving, have both completed, the
\* stored budget.used is the initial used plus twice cost/1000.
C1_NoLostDebit ==
    (Quiescent /\ ServeOnly) =>
        \A id \in InitialIds :
            Cardinality(Debited(id)) = 2 =>
                store[id].budget.used =
                    initial[id].budget.used + 2 * DebitCost(initial[id])

\* C2: once n serve requests that selected the same campaign have all
\* completed, in any interleaving, the stored views.total is its initial
\* value plus n.
C2_NoLostView ==
    (Quiescent /\ ServeOnly) =>
        \A id \in InitialIds :
            store[id].stats.views.total =
                initial[id].stats.views.total + Cardinality(Counted(id))

\* C3: once two view increments of the same campaign, one for a viewer in
\* country A and one for a viewer in country B, have both completed, the
\* stored views.geo holds both: geo[A] and geo[B] are each one higher than
\* before (the geo map starts empty).
C3_GeoKeepsBothCountries ==
    (Quiescent /\ ServeOnly) =>
        \A id \in InitialIds : \A p, q \in Counted(id) :
            (Cardinality(Counted(id)) = 2
               /\ procs[p].viewer.country = "A" /\ procs[q].viewer.country = "B")
            => LET geo == store[id].stats.views.geo
               IN  /\ DOMAIN geo = {"A", "B"}
                   /\ geo["A"] = 1
                   /\ geo["B"] = 1

\* C4: while only serve and click-through requests run, from campaigns with
\* used <= total, budget.used never exceeds budget.total by more than one
\* event's cost.
C4_OvershootAtMostOneEvent ==
    ServeOnly =>
        \A id \in InitialIds :
            store[id].budget.used <= store[id].budget.total + DebitCost(store[id])

\* C5: pick returns none, or a campaign of the list it read that is active,
\* has budget.total >= budget.used and passes executeFilters for the viewer.
C5_PickReturnsEligible ==
    pk.called =>
        \/ pk.result = NoCampaign
        \/ \E i \in 1..Len(campaigns) :
              /\ campaigns[i] = pk.result
              /\ campaigns[i].active
              /\ campaigns[i].budget.total >= campaigns[i].budget.used
              /\ ExecuteFilters(campaigns[i], pk.viewer)

\* C5, its case: pick returned the third campaign of a list whose first is
\* inactive and whose second is over budget.
C5_Witness ==
    /\ pk.called
    /\ Len(campaigns) = 3
    /\ pk.result = campaigns[3]
    /\ ~campaigns[1].active
    /\ campaigns[2].budget.used > campaigns[2].budget.total

\* C6: while only serve and click-through requests run, the stored
\* budget.used of a campaign never decreases from one state to the next.
C6_UsedNeverDecreases ==
    [][ServeOnly' =>
          \A id \in InitialIds :
              store'[id].budget.used >= store[id].budget.used]_vars

\* C7: the stored logs of a campaign only grow: in every step the logs
\* before are a prefix of the logs after, also when two appends overlap.
C7_LogsOnlyGrow ==
    [][\A id \in InitialIds :
          (store[id] # Absent /\ store'[id] # Absent) =>
              IsPrefix(store[id].logs, store'[id].logs)]_vars

\* C8: when every create, update and delete has completed, the in-memory
\* list holds exactly one entry for each stored campaign id, none for an
\* absent id, and each entry equals the stored record.
C8_ListMatchesStore ==
    Quiescent =>
        /\ \A i, j \in 1..Len(campaigns) :
              campaigns[i].id = campaigns[j].id => i = j
        /\ {campaigns[i].id : i \in 1..Len(campaigns)}
              = {id \in AllIds : store[id] # Absent}
        /\ \A i \in 1..Len(campaigns) :
              campaigns[i] = store[campaigns[i].id]

\* C9: a debit (incrementUsage) whose event type differs from the
\* campaign's budget.type returns the campaign as it was given and writes
\* nothing; with an equal type it stores used = used + cost/1000 of the
\* campaign it was given, with that campaign's total, type and cost, and
\* leaves every other field of the stored campaign, and every other
\* campaign, as it was.
C9_DebitContract ==
    [][\A p \in Procs :
          (procs[p].pc = "incrementUsage" /\ procs'[p].pc # "incrementUsage") =>
              LET c == procs[p].campaign
              IN  IF c.budget.type # UsageType(procs[p].op)
                  THEN /\ store' = store
                       /\ campaigns' = campaigns
                       /\ procs'[p].pc = "done"
                       /\ procs'[p].result = "ok"
                       /\ procs'[p].campaign = c
                  ELSE store[c.id] # Absent =>
                       /\ store'[c.id].budget.used
                            = c.budget.used + c.budget.cost \div CostDivisor
                       /\ store'[c.id].budget.total = c.budget.total
                       /\ store'[c.id].budget.type = c.budget.type
                       /\ store'[c.id].budget.cost = c.budget.cost
                       /\ \A f \in (DOMAIN store[c.id]) \ {"budget"} :
                             store'[c.id][f] = store[c.id][f]
                       /\ \A id \in AllIds \ {c.id} : store'[id] = store[id]
                       /\ procs'[p].updated = store'[c.id]]_vars

\* C9, its case: one click-through has debited a click campaign and has
\* returned, and a serve of the same campaign has returned from its debit
\* without writing, the type being another.
C9_Witness ==
    \E p, q \in Procs :
        /\ procs[p].op = "click" /\ procs[p].pc = "done" /\ procs[p].debited
        /\ procs[p].campaign.budget.used = initial["c1"].budget.used + 1
        /\ procs[q].op = "ad" /\ procs[q].pc = "done" /\ procs[q].result = "ok"
        /\ procs[q].counted /\ ~procs[q].debited
        /\ procs[q].campaign.id = procs[p].campaign.id

\* Every campaign record of a state: stored, listed, or held by a request
CampaignsOfState ==
    {store[id] : id \in {i \in DOMAIN store : store[i] # Absent}}
      \cup {campaigns[i] : i \in 1..Len(campaigns)}
      \cup {procs[p].campaign : p \in {q \in Procs :
                 procs[q].op \in {"ad", "click", "log", "create"}
                   /\ procs[q].campaign # NoCampaign}}
      \cup {procs[p].updated : p \in {q \in Procs : procs[q].updated # NoCampaign}}

\* C10: for every campaign of every reachable state, before and after any
\* debit, available(campaign) is true exactly when budget.total >=
\* budget.used; a campaign with total = used is available.
C10_AvailableIffWithinBudget ==
    \A c \in CampaignsOfState :
        /\ Available(c) <=> (c.budget.total >= c.budget.used)
        /\ (c.budget.total = c.budget.used) => Available(c)

\* C10, its case: debits have brought one stored campaign exactly to its
\* total and another stored or listed record over it.
C10_Witness ==
    \E c, d \in CampaignsOfState :
        /\ Debited(c.id) # {}
        /\ c.budget.used = c.budget.total /\ Available(c)
        /\ d.budget.used > d.budget.total /\ ~Available(d)

\* C11: incrementStatistic(campaign, "views", viewer) stores, for the
\* campaign it was given, views.total one higher; for a viewer with a
\* country, views.geo[country] one higher, or 1 when the key was absent;
\* for a viewer without a country, the same geo map; every other geo key
\* and the clicks counters as the campaign given has them.
C11_ViewIncrement ==
    [][\A p \in Procs :
          (procs[p].pc = "incrementStatistic" /\ procs'[p].pc = "list") =>
              LET c   == procs[p].campaign
                  k   == procs[p].viewer.country
                  old == c.stats.views
                  new == store'[c.id].stats.views
              IN  /\ new.total = old.total + 1
                  /\ IF k = NoCountry
                     THEN new.geo = old.geo
                     ELSE /\ DOMAIN new.geo = (DOMAIN old.geo) \cup {k}
                          /\ new.geo[k] = IF k \in DOMAIN old.geo
                                          THEN old.geo[k] + 1 ELSE 1
                          /\ \A j \in (DOMAIN old.geo) \ {k} :
                                new.geo[j] = old.geo[j]
                  /\ store'[c.id].stats.clicks = c.stats.clicks
                  /\ procs'[p].updated = store'[c.id]]_vars

\* C11, its case: on a campaign that starts with views in A and B and with
\* clicks, a view without a country and then a view from A have been
\* recorded.
C11_Witness ==
    \E p, q \in Procs :
        /\ procs[p].counted /\ procs[p].viewer.country = NoCountry
        /\ procs[q].counted /\ procs[q].viewer.country = "A"
        /\ initial["c1"].stats.views.total = 2
        /\ store["c1"].stats.views.total = 4
        /\ store["c1"].stats.views.geo["A"] = 2
        /\ store["c1"].stats.views.geo["B"] = 1
        /\ store["c1"].stats.clicks = initial["c1"].stats.clicks

\* C12: clearStatistics(campaign) makes one update: it stores zero totals
\* and empty geo maps for clicks and views, leaves every other field of
\* the stored campaign (budget, active, filters, settings, logs) and every
\* other campaign as they were, emits no metrics event, and returns the
\* campaign so stored once the list holds it.
C12_ClearStatisticsFrame ==
    [][\A p \in Procs :
          /\ (procs[p].pc = "clearStatistics" /\ procs'[p].pc = "list") =>
                LET id == procs[p].campaign.id
                IN  /\ store'[id].stats = ZeroStats
                    /\ \A f \in (DOMAIN store[id]) \ {"stats"} :
                          store'[id][f] = store[id][f]
                    /\ \A other \in AllIds \ {id} : store'[other] = store[other]
                    /\ metrics' = metrics
                    /\ procs'[p].updated = store'[id]
          /\ (procs[p].op = "clearStatistics" /\ procs[p].pc = "list"
                /\ procs'[p].pc # "list") =>
                /\ store' = store
                /\ procs'[p].pc = "done"
                /\ procs'[p].result = "ok"
                /\ procs'[p].campaign = procs[p].updated]_vars

\* C12, its case: a reset has completed on a campaign that started with
\* non-zero statistics and that a serve had counted and debited before.
C12_Witness ==
    \E p, q \in Procs :
        /\ procs[p].op = "clearStatistics" /\ procs[p].pc = "done"
        /\ procs[p].result = "ok"
        /\ procs[q].op = "ad" /\ procs[q].pc = "done" /\ procs[q].debited
        /\ initial["c1"].stats # ZeroStats
        /\ store["c1"].stats = ZeroStats
        /\ procs[p].campaign.stats = ZeroStats
        /\ store["c1"].budget.used = initial["c1"].budget.used + 1
        /\ store["c1"].logs = initial["c1"].logs

\* The calls, in order, of a serve that has gone through both of its steps
ServeCalls ==
    <<Call("incrementStatistic", "views", "none"),
      Call("incrementUsage", "view", "none")>>

\* C13: every serve (ad) that returns a campaign has called, on the campaign
\* pick gave it, incrementStatistic for "views" once and then incrementUsage
\* for "view" once, in that order and nothing else; the view increment has
\* been stored, and the debit has been stored when the campaign's budget
\* type is "view" (it is a no-op otherwise); no debit of a serve is stored
\* before its view increment.
C13_ServeCountsThenDebits ==
    [][\A p \in Procs :
          /\ (procs'[p].op = "ad" /\ procs'[p].pc = "done"
                /\ procs'[p].result = "ok") =>
                /\ procs'[p].calls = ServeCalls
                /\ procs'[p].counted
                /\ procs'[p].campaign.budget.type = "view" => procs'[p].debited
          /\ (procs[p].op = "ad" /\ procs'[p].debited /\ ~procs[p].debited) =>
                /\ procs[p].counted
                /\ procs[p].calls = ServeCalls
                /\ procs'[p].updated.id = procs[p].campaign.id
          /\ (procs[p].op = "ad" /\ procs[p].pc # "idle") =>
                procs'[p].campaign.id = procs[p].campaign.id]_vars

\* C13, its case: a serve has returned a view campaign after counting the
\* view and then debiting it, and the store holds both.
C13_Witness ==
    \E p \in Procs :
        /\ procs[p].op = "ad" /\ procs[p].pc = "done" /\ procs[p].result = "ok"
        /\ procs[p].calls = ServeCalls
        /\ procs[p].counted /\ procs[p].debited
        /\ procs[p].campaign.id = "c2"
        /\ store["c2"] # Absent
        /\ store["c2"].stats.views.total = initial["c2"].stats.views.total + 1
        /\ store["c2"].budget.used = initial["c2"].budget.used + 1

\* C14: when pick returns none, serve (ad) returns none in that same step:
\* it has called nothing, the store, the in-memory list and the metrics
\* sink are as they were, and the request takes no further step.
C14_NoneLeavesAllUnchanged ==
    [][\A p \in Procs :
          /\ (procs[p].pc = "idle" /\ procs'[p].op = "ad"
                /\ procs'[p].campaign = NoCampaign) =>
                /\ \E random \in 1..MaxRandom :
                      Pick(campaigns, procs'[p].viewer, random) = NoCampaign
                /\ procs'[p].pc = "done"
                /\ procs'[p].result = "null"
                /\ procs'[p].calls = <<>>
                /\ store' = store
                /\ campaigns' = campaigns
                /\ metrics' = metrics
          /\ (procs[p].op = "ad" /\ procs[p].pc = "done") =>
                procs'[p] = procs[p]]_vars

\* C14, its case: with both campaigns of the list eligible, a serve has
\* returned none (the draw fell between the two intervals), and nothing
\* has been written or emitted.
C14_Witness ==
    \E p \in Procs :
        /\ procs[p].op = "ad" /\ procs[p].pc = "done"
        /\ procs[p].result = "null"
        /\ Len(campaigns) = 2
        /\ \A i \in 1..2 : campaigns[i].active /\ Available(campaigns[i])
        /\ store = initial
        /\ metrics = <<>>

\* C15: a click-through whose id resolves to no campaign returns none in
\* that same step: it has called nothing, the store (budget, stats and logs
\* of every campaign), the in-memory list and the metrics sink are as they
\* were, and the request takes no further step.
C15_UnknownClickWritesNothing ==
    [][\A p \in Procs :
          /\ (procs[p].pc = "idle" /\ procs'[p].op = "click"
                /\ procs'[p].campaign = NoCampaign) =>
                /\ procs'[p].pc = "done"
                /\ procs'[p].result = "null"
                /\ procs'[p].calls = <<>>
                /\ store' = store
                /\ campaigns' = campaigns
                /\ metrics' = metrics
          /\ (procs[p].pc = "idle" /\ procs'[p].op = "click"
                /\ procs'[p].campaign # NoCampaign) =>
                /\ procs'[p].campaign.id \in ClickIds
                /\ procs'[p].campaign = store[procs'[p].campaign.id]
          /\ (procs[p].op = "click" /\ procs[p].pc = "done") =>
                procs'[p] = procs[p]]_vars

\* C15, its case: after a delete of c1 has completed, a click-through has
\* found no campaign and has returned none; c2 is as it was.
C15_Witness ==
    \E p, q \in Procs :
        /\ procs[q].op = "delete" /\ procs[q].pc = "done"
        /\ procs[q].campaign.id = "c1"
        /\ procs[p].op = "click" /\ procs[p].pc = "done"
        /\ procs[p].result = "null" /\ procs[p].calls = <<>>
        /\ store["c1"] = Absent
        /\ store["c2"] = initial["c2"]
        /\ Len(campaigns) = 1

\* The click-throughs that have completed on campaign id
Clicked(id) ==
    {p \in Procs : procs[p].op = "click" /\ procs[p].pc = "done"
                     /\ procs[p].result = "ok" /\ procs[p].campaign.id = id}

\* C16: once the click-throughs on an existing campaign have completed,
\* its stored stats.clicks.total is one higher per click-through than it
\* was at the start.
C16_ClickCounted ==
    (Quiescent /\ ServeOnly) =>
        \A id \in InitialIds :
            store[id].stats.clicks.total =
                initial[id].stats.clicks.total + Cardinality(Clicked(id))

\* C17: after N audit appends on a campaign created with empty logs, made
\* one after another, each with the campaign the previous one returned and
\* each one stored, the stored logs and the logs of the campaign returned
\* have exactly N entries, the i-th with the action and the acting user's
\* id of the i-th call.
C17_LogsInCallOrder ==
    \A p \in Procs :
        (procs[p].op = "log" /\ procs[p].pc = "done" /\ procs[p].result = "ok"
           /\ initial[procs[p].campaign.id].logs = <<>>) =>
            LET logs  == store[procs[p].campaign.id].logs
                calls == procs[p].calls
            IN  /\ Len(logs) = Len(calls)
                /\ \A i \in 1..Len(calls) :
                      /\ calls[i].name = "log"
                      /\ logs[i].action = calls[i].arg
                      /\ logs[i].who = calls[i].who
                /\ procs[p].campaign.logs = logs

\* C17, its case: three appends have completed one after another: toggle by
\* u2, addBudget by u1, toggle by u2.
C17_Witness ==
    \E p \in Procs :
        /\ procs[p].op = "log" /\ procs[p].pc = "done" /\ procs[p].result = "ok"
        /\ Len(procs[p].calls) = 3
        /\ procs[p].calls[1].arg = "toggle"
        /\ procs[p].calls[2].arg = "addBudget"
        /\ procs[p].calls[3].arg = "toggle"
        /\ Len(store["c1"].logs) = 3
        /\ store["c1"].logs[2].who = "u1"

\* C20: a log whose store update fails ends with that failure as its
\* result and leaves the store as it was; a log reports success only after
\* the store has taken its entry as the last of the campaign's logs.
C20_LogFailurePropagates ==
    [][\A p \in Procs :
          /\ (procs[p].pc = "log" /\ procs'[p].pc # "log") =>
                LET c == procs[p].campaign
                IN  IF store'[c.id].logs = Append(c.logs, procs[p].entry)
                    THEN /\ procs'[p].pc = "list"
                         /\ procs'[p].updated = store'[c.id]
                    ELSE /\ store' = store
                         /\ procs'[p].pc = "done"
                         /\ procs'[p].result = "error"
          /\ (procs[p].op = "log" /\ procs[p].pc # "done"
                /\ procs'[p].pc = "done" /\ procs'[p].result = "ok") =>
                /\ procs[p].pc = "list"
                /\ store[procs[p].campaign.id].logs
                      = Append(procs[p].campaign.logs, procs[p].entry)
                /\ procs'[p].campaign = procs[p].updated]_vars

\* C20, its case: the first append was stored, the store update of the
\* second failed: the second log has ended with the error and the store
\* holds the first entry alone.
C20_Witness ==
    \E p \in Procs :
        /\ procs[p].op = "log" /\ procs[p].pc = "done"
        /\ procs[p].result = "error"
        /\ Len(procs[p].calls) = 2
        /\ Len(store["c1"].logs) = 1
        /\ store["c1"].logs[1].action = procs[p].calls[1].arg

C19_SinkFailureSwallowed ==
    \A p \in Procs :
        (procs[p].op = "ad" /\ procs[p].sinkFailed /\ procs[p].pc = "done") =>
            /\ procs[p].result = "ok"
            /\ procs[p].counted
            /\ procs[p].campaign.budget.type = "view" => procs[p].debited

C23_NoFiltersAlwaysTrue ==
    (fx.called /\ (fx.filters.null \/ Len(fx.filters.calls) = 0)) =>
        /\ fx.result = TRUE
        /\ fx.executed = <<>>

\* C23, its case: executeFilters has returned true on an empty filter list
\* for a viewer without a country and without a guild.
C23_Witness ==
    /\ fx.called
    /\ ~fx.filters.null /\ Len(fx.filters.calls) = 0
    /\ fx.viewer.country = NoCountry /\ ~fx.viewer.hasGuild
    /\ fx.result = TRUE

\* The positions of the calls of fx whose name is a registered filter
RegisteredCalls ==
    {i \in 1..Len(fx.filters.calls) : fx.filters.calls[i].name \in FilterNames}

\* The registered calls of fx whose filter does not return true
FailingCalls ==
    {i \in RegisteredCalls :
        FilterExecute(fx.filters.calls[i].name, fx.filters.calls[i].data,
                      fx.viewer) # "true"}

\* C27: for a non-empty filter list, executeFilters returns true exactly
\* when every call with a registered name (countries, tags, languages)
\* returns true; the filters it runs are those of the registered calls, in
\* list order, up to and including the first that does not return true;
\* calls with an unregistered name are skipped.
C27_ConjunctionOfRegistered ==
    (fx.called /\ ~fx.filters.null /\ Len(fx.filters.calls) > 0) =>
        LET run == {i \in RegisteredCalls : \A j \in FailingCalls : i <= j}
        IN  /\ fx.result = (FailingCalls = {})
            /\ Len(fx.executed) = Cardinality(run)
            /\ \A k \in 1..Len(fx.executed) : fx.executed[k] \in run
            /\ \A k \in 1..(Len(fx.executed) - 1) :
                  fx.executed[k] < fx.executed[k + 1]

\* C27, its case: on the list <<unregistered, countries>> the call with the
\* unregistered name has been skipped and the countries filter has let a
\* viewer from A through.
C27_Witness ==
    /\ fx.called
    /\ ~fx.filters.null /\ Len(fx.filters.calls) = 2
    /\ fx.filters.calls[1].name = "unregistered"
    /\ fx.filters.calls[2].name = "countries"
    /\ fx.viewer.country = "A"
    /\ fx.executed = <<2>>
    /\ fx.result = TRUE

\* C28: executeFilters returns false whenever the list has a countries
\* call and the viewer has no country, or a tags call and the viewer has no
\* guild or the guild has no tags, or a tags call and none of the guild's
\* tags is in the call's list; pick then leaves the campaign out.
C28_FailClosed ==
    (fx.called /\ ~fx.filters.null
       /\ \E i \in 1..Len(fx.filters.calls) :
             LET call == fx.filters.calls[i]
             IN  \/ call.name = "countries" /\ fx.viewer.country = NoCountry
                 \/ call.name = "tags"
                      /\ (~fx.viewer.hasGuild \/ ~fx.viewer.hasTags)
                 \/ call.name = "tags" /\ fx.viewer.hasGuild
                      /\ fx.viewer.hasTags
                      /\ fx.viewer.tags \cap call.data = {})
    => /\ fx.result = FALSE
       /\ \A random \in {1, MaxRandom} :
             Pick(<<Campaign("c1", TRUE, Budget(1, 0, "view", CostDivisor),
                             <<>>, fx.filters, "s0", ZeroStats)>>,
                  fx.viewer, random) = NoCampaign

\* C28, its case: the list holds a tags call, the viewer's guild has a tag
\* that is not in the call's list, and executeFilters has returned false.
C28_Witness ==
    /\ fx.called
    /\ ~fx.filters.null /\ Len(fx.filters.calls) = 1
    /\ fx.filters.calls[1].name = "tags"
    /\ fx.viewer.hasGuild /\ fx.viewer.hasTags
    /\ fx.viewer.tags = {"t2"}
    /\ fx.result = FALSE

\* C24: for every eligible set of at most 5 campaigns, each with a positive
\* budget total, each campaign of the set is returned by pick for at least
\* one draw in 1..100.
C24_NoCrowdOut ==
    (pk.called /\ Len(campaigns) <= 5
       /\ Eligible(campaigns, pk.viewer) = campaigns
       /\ \A i \in 1..Len(campaigns) : campaigns[i].budget.total > 0) =>
        \A i \in 1..Len(campaigns) :
            \E random \in 1..MaxRandom :
                Pick(campaigns, pk.viewer, random) = campaigns[i]

\* C25: in pick's walk, end grows by the clamped percent, the value start
\* grows by: after every candidate that does not win, start equals end.
C25_StartEqualsEnd ==
    pk.called =>
        \A k \in 1..Len(pk.bounds) : pk.bounds[k].start = pk.bounds[k].end

\* C26: on three active, eligible campaigns with budget totals 10, 10, 80
\* in that order, the draw 1 makes pick return the first campaign, and the
\* draws 50 and 99 make it return none.
C26_TenTenEighty ==
    (pk.called /\ Len(campaigns) = 3
       /\ Eligible(campaigns, pk.viewer) = campaigns
       /\ campaigns[1].budget.total = 10
       /\ campaigns[2].budget.total = 10
       /\ campaigns[3].budget.total = 80) =>
        /\ pk.random = 1 => pk.result = campaigns[1]
        /\ pk.random \in {50, 99} => pk.result = NoCampaign

\* A budget with a negative total or a negative cost
InvalidBudget(b) == b.total < 0 \/ b.cost < 0

\* C21: a create or an update whose budget has a negative total or a
\* negative cost ends with an error in its first step and leaves the store
\* and the in-memory list as they were.
C21_InvalidBudgetRejected ==
    [][\A p \in Procs :
          /\ (procs[p].pc = "idle" /\ procs'[p].op = "create"
                /\ InvalidBudget(procs'[p].campaign.budget)) =>
                /\ store' = store
                /\ campaigns' = campaigns
                /\ procs'[p].pc = "done"
                /\ procs'[p].result = "error"
          /\ (procs[p].pc = "update" /\ procs'[p].pc # "update"
                /\ InvalidBudget(procs[p].changes.budget)) =>
                /\ store' = store
                /\ campaigns' = campaigns
                /\ procs'[p].pc = "done"
                /\ procs'[p].result = "error"]_vars

\* C29: when an operator's update that raises budget.total of a campaign
\* has completed after a serve or click-through began (read its campaign)
\* and before that request's debit is written, the debit leaves the stored
\* total at the raised value, and the stored type and cost as they are.
C29_DebitKeepsRaisedTotal ==
    [][\A p, q \in Procs :
          (/\ p < q
           /\ procs[p].pc = "incrementUsage" /\ procs'[p].pc = "list"
           /\ procs[q].op = "update" /\ procs[q].pc = "done"
           /\ procs[q].result = "ok"
           /\ procs[q].campaign.id = procs[p].campaign.id
           /\ procs[q].campaign.budget.total
                 > initial[procs[p].campaign.id].budget.total) =>
              LET id == procs[p].campaign.id
              IN  /\ store'[id].budget.total = procs[q].campaign.budget.total
                  /\ store'[id].budget.type = store[id].budget.type
                  /\ store'[id].budget.cost = store[id].budget.cost]_vars

\* C30: when a clearStatistics of a campaign has completed after a serve
\* began (read its campaign) and before that serve's view increment is
\* written, the increment leaves the stored views.total at 1 at most and no
\* stored views.geo count above 1: the counts from before the reset do not
\* come back.
C30_ResetNotUndone ==
    [][\A p, q \in Procs :
          (/\ p < q
           /\ procs[p].pc = "incrementStatistic" /\ procs'[p].pc = "list"
           /\ procs[q].op = "clearStatistics" /\ procs[q].pc = "done"
           /\ procs[q].result = "ok"
           /\ procs[q].campaign.id = procs[p].campaign.id) =>
              LET views == store'[procs[p].campaign.id].stats.views
              IN  /\ views.total <= 1
                  /\ \A k \in DOMAIN views.geo : views.geo[k] <= 1]_vars


\* The list without the entries whose id is id
WithoutId(list, id) == SelectSeq(list, LAMBDA c : c.id # id)

\* C31: delete(c) removes from the in-memory list only the entry whose id is
\* c.id: in every step in which a delete splices the list, the list after
\* is the list before without the entries of that id, so when no entry has
\* that id (a second delete of the same campaign, or two overlapping
\* deletes) the list is left as it was.
C31_DeleteOnlyById ==
    [][\A p \in Procs :
          (procs[p].pc = "idle" /\ procs'[p].pc = "deleteStore") =>
              campaigns' = WithoutId(campaigns, procs'[p].campaign.id)]_vars

\* C32: when the store delete fails during delete(c) and delete ends with
\* the error, list and store agree about c: the list holds an entry with
\* c's id exactly when the store holds c.
C32_FailedDeleteKeepsEntry ==
    [][\A p \in Procs :
          (procs[p].pc = "deleteStore" /\ procs'[p].pc = "done"
             /\ procs'[p].result = "error") =>
              ((FindIndex(campaigns', procs[p].campaign.id) >= 0)
                  <=> (store'[procs[p].campaign.id] # Absent))]_vars

\* The ids of the campaigns of a list
IdsOf(list) == {list[i].id : i \in 1..Len(list)}

\* C33: when load() fails with a store error it ends with that error and
\* the in-memory list holds the same campaigns as before the call.
C33_FailedLoadKeepsList ==
    [][\A p \in Procs :
          (procs[p].pc = "select" /\ procs'[p].pc = "done"
             /\ procs'[p].result = "error") =>
              IdsOf(campaigns') = IdsOf(procs[p].listAtCall)]_vars
====
